---- MODULE Spec2Model ----
(***************************************************************************)
(* A model of the CSML engine fragments:                                   *)
(*   - ArgsType (csml_interpreter/src/data/fn_args_type.rs)                *)
(*   - gen_literal (src/interpreter/variable_handler/gen_literal.rs)       *)
(*   - the validate-then-interpret example (examples/memory.rs)            *)
(*   - the bot-version routes (csml_server/src/routes/bot_versions.rs)     *)
(*   - database backend selection (csml_engine/src/db_connectors/mod.rs)   *)
(* Each fragment has its own specification over its own variables; the     *)
(* variables of the other fragments stay at their idle values.             *)
(***************************************************************************)
EXTENDS Integers, Sequences, FiniteSets, TLC

VARIABLES
    args,       \* the ArgsType under test: [kind, var]
    map,        \* the caller-supplied target map (&mut HashMap<String, Literal>)
    call,       \* the last ArgsType method called, with its inputs
    ret,        \* what that call returned
    data,       \* the evaluator's context (&mut Data)
    evcall,     \* the last gen_literal function called, with its inputs
    evret,      \* what that call returned
    mpc,        \* main of examples/memory.rs: where it stands
    bot,        \* main: the CsmlBot it built
    result,     \* main: what validate_bot returned
    validated,  \* main: the bots handed to validate_bot, in order
    interpreted,\* main: the bots handed to interpret, in order
    dbg,        \* main: what dbg! printed, in order
    hpc,        \* a bot-version request: where its handler stands
    req,        \* the request: its route and inputs
    worker,     \* what the spawned thread ended with
    resp,       \* the HttpResponse the handler returned
    elog,       \* what the handler printed with eprintln!
    features,   \* db_connectors: the cargo features of the build
    env,        \* db_connectors: std::env::var("ENGINE_DB_TYPE")
    dbcall,     \* db_connectors: the function called
    dbret       \* db_connectors: what it returned

argsVars == <<args, map, call, ret>>

evalVars == <<data, evcall, evret>>

mainVars == <<mpc, bot, result, validated, interpreted, dbg>>

srvVars == <<hpc, req, worker, resp, elog>>

dbVars == <<features, env, dbcall, dbret>>

vars == <<args, map, call, ret, data, evcall, evret,
          mpc, bot, result, validated, interpreted, dbg,
          hpc, req, worker, resp, elog,
          features, env, dbcall, dbret>>

----------------------------------------------------------------------------
(* Option and Result values *)

None == [tag |-> "None"]

Some(x) == [tag |-> "Some", val |-> x]

Ok(x) == [tag |-> "Ok", val |-> x]

Err(e) == [tag |-> "Err", err |-> e]

Unit == [tag |-> "()"]

----------------------------------------------------------------------------
(* Interval and Literal *)

MaxLine == 2

Intervals == [line : 1..MaxLine, column : {5}]

\* Literal::string(value, interval)
LiteralString(s, iv) ==
    [content_type |-> None, interval |-> iv,
     primitive |-> [type |-> "String", value |-> s]]

\* Literal::null(interval)
LiteralNull(iv) ==
    [content_type |-> None, interval |-> iv,
     primitive |-> [type |-> "Null", value |-> "NULL"]]

\* Literal::int(value, interval)
LiteralInt(n, iv) ==
    [content_type |-> None, interval |-> iv,
     primitive |-> [type |-> "Int", value |-> n]]

\* Literal::object(map, interval)
LiteralObject(m, iv) ==
    [content_type |-> None, interval |-> iv,
     primitive |-> [type |-> "Object", value |-> m]]

\* Literal::set_content_type
WithContentType(lit, tag) == [lit EXCEPT !.content_type = Some(tag)]

----------------------------------------------------------------------------
(* HashMap<String, V> as a function from a finite set of keys *)

EmptyMap == [k \in {} |-> None]

ContainsKey(m, k) == k \in DOMAIN m

\* HashMap::get
MapGet(m, k) == IF k \in DOMAIN m THEN Some(m[k]) ELSE None

\* HashMap::insert
MapInsert(m, k, v) == [x \in DOMAIN m \cup {k} |-> IF x = k THEN v ELSE m[x]]

\* HashMap::len
MapLen(m) == Cardinality(DOMAIN m)

\* all maps from a subset of ks of at most n keys into vs
MapsUpTo(ks, vs, n) ==
    UNION {[d -> vs] : d \in {s \in SUBSET ks : Cardinality(s) <= n}}

----------------------------------------------------------------------------
(* ArgsType *)

MaxIndex == 2

MaxArgs == 2

MaxVec == 2

MaxJson == 2

MaxTarget == 1

\* format!("arg{}", index)
ArgKey(index) == "arg" \o ToString(index)

ArgLiterals ==
    {LiteralString("x", [line |-> 1, column |-> 1]),
     LiteralInt(1, [line |-> 1, column |-> 7])}

NamedKeys == {"a", "arg0", "arg1"}

TargetKeys == {"a", "arg0", "t"}

LookupKeys == NamedKeys \cup {"x"}

DeclaredNames == {"a", "b", "arg1"}

\* ArgsType::Named(map): keyword arguments, any keys
NamedArgs ==
    [kind : {"Named"},
     var : MapsUpTo(NamedKeys, ArgLiterals, Cardinality(NamedKeys))]

\* ArgsType::Normal(map): positional arguments keyed arg0 .. arg{n-1}
NormalArgs ==
    [kind : {"Normal"},
     var : UNION {[{ArgKey(i) : i \in 0..(n - 1)} -> ArgLiterals] : n \in 0..MaxArgs}]

\* vec: &[&str]
NameVecs == UNION {[1..n -> DeclaredNames] : n \in 0..MaxVec}

\* vec.contains(&key)
VecContains(vec, key) == \E i \in 1..Len(vec) : vec[i] = key

\* serde_json::Value, the variants the callers pass
JsonObject(ks) == [type |-> "Object", fields |-> [k \in ks |-> "null"]]

JsonString(s) == [type |-> "String", value |-> s]

JsonValues ==
    {JsonObject(ks) : ks \in {{}, {"a"}, {"arg1"}, {"a", "b"}}} \cup {JsonString("a")}

\* vec: &[serde_json::Value]
JsonVecs == UNION {[1..n -> JsonValues] : n \in 0..MaxJson}

\* serde_json::Value::as_object
as_object(v) == IF v.type = "Object" THEN Some(v.fields) ELSE None

\* ArgsType::get, returning None for index > 0 only
ArgsGetAnyIndex(self, key, index) ==
    IF self.kind = "Named"
    THEN IF MapGet(self.var, key).tag = "Some"
         THEN MapGet(self.var, key)
         ELSE MapGet(self.var, ArgKey(index))
    ELSE MapGet(self.var, ArgKey(index))

\* ArgsType::get
ArgsGet(self, key, index) ==
    IF self.kind = "Named"
    THEN IF MapGet(self.var, key).tag = "Some"
         THEN MapGet(self.var, key)
         ELSE IF index = 0
              THEN MapGet(self.var, ArgKey(index))
              ELSE None
    ELSE MapGet(self.var, ArgKey(index))

\* gen_error_info(Position::new(interval), message)
gen_error_info(interval, message) == [message |-> message, interval |-> interval]

RECURSIVE PopulateNamedLoop(_, _, _, _)
\* `for (key, value) in var.iter()` of populate, over the keys not yet visited
PopulateNamedLoop(var, rest, m, vec) ==
    IF rest = {}
    THEN m
    ELSE LET key == CHOOSE k \in rest : TRUE
             m2 == IF ~VecContains(vec, key) /\ key # "arg0"
                   THEN MapInsert(m, key, var[key])
                   ELSE m
         IN PopulateNamedLoop(var, rest \ {key}, m2, vec)

\* populate with `<=` for `<` in the Normal arm
ArgsPopulateOffByOne(self, m, vec, interval) ==
    IF self.kind = "Named"
    THEN [ret |-> Ok(Unit),
          map |-> PopulateNamedLoop(self.var, DOMAIN self.var, m, vec)]
    ELSE IF Len(vec) <= MapLen(self.var)
         THEN [ret |-> Err(gen_error_info(interval, "to many arguments")),
               map |-> m]
         ELSE [ret |-> Ok(Unit), map |-> m]

\* populate without the `key != "arg0"` test in the Named arm
ArgsPopulateCopiesArg0(self, m, vec, interval) ==
    IF self.kind = "Named"
    THEN [ret |-> Ok(Unit),
          map |-> [k \in DOMAIN m \cup {x \in DOMAIN self.var : ~VecContains(vec, x)} |->
                      IF k \in DOMAIN self.var /\ ~VecContains(vec, k)
                      THEN self.var[k] ELSE m[k]]]
    ELSE IF Len(vec) < MapLen(self.var)
         THEN [ret |-> Err(gen_error_info(interval, "to many arguments")),
               map |-> m]
         ELSE [ret |-> Ok(Unit), map |-> m]

\* ArgsType::populate: the result and the target map afterwards
ArgsPopulate(self, m, vec, interval) ==
    IF self.kind = "Named"
    THEN [ret |-> Ok(Unit),
          map |-> PopulateNamedLoop(self.var, DOMAIN self.var, m, vec)]
    ELSE IF Len(vec) < MapLen(self.var)
         THEN [ret |-> Err(gen_error_info(interval, "to many arguments")),
               map |-> m]
         ELSE [ret |-> Ok(Unit), map |-> m]

\* find looking at the first element of vec only
JsonFindFirstOnly(vec, key) ==
    IF Len(vec) > 0 /\ as_object(vec[1]).tag = "Some"
       /\ ContainsKey(as_object(vec[1]).val, key)
    THEN Some(vec[1])
    ELSE None

\* the closure of `vec.iter().find(..)` in populate_json_to_literal
JsonFind(vec, key) ==
    IF \E i \in 1..Len(vec) :
           as_object(vec[i]).tag = "Some" /\ ContainsKey(as_object(vec[i]).val, key)
    THEN Some(vec[CHOOSE i \in 1..Len(vec) :
                    /\ as_object(vec[i]).tag = "Some"
                    /\ ContainsKey(as_object(vec[i]).val, key)
                    /\ \A j \in 1..(i - 1) :
                          ~(as_object(vec[j]).tag = "Some"
                            /\ ContainsKey(as_object(vec[j]).val, key))])
    ELSE None

RECURSIVE PopulateJsonLoop(_, _, _, _)
\* `for (key, value) in var.iter()` of populate_json_to_literal
PopulateJsonLoop(var, rest, m, vec) ==
    IF rest = {}
    THEN m
    ELSE LET key == CHOOSE k \in rest : TRUE
             contains == JsonFind(vec, key)
             m2 == IF contains.tag = "None" /\ key # "arg0"
                   THEN MapInsert(m, key, var[key])
                   ELSE m
         IN PopulateJsonLoop(var, rest \ {key}, m2, vec)

\* ArgsType::populate_json_to_literal: the result and the target map afterwards
ArgsPopulateJson(self, m, vec, interval) ==
    IF self.kind = "Named"
    THEN [ret |-> Ok(Unit),
          map |-> PopulateJsonLoop(self.var, DOMAIN self.var, m, vec)]
    ELSE IF Len(vec) < MapLen(self.var)
         THEN [ret |-> Err(gen_error_info(interval, "to many arguments")),
               map |-> m]
         ELSE [ret |-> Ok(Unit), map |-> m]

----------------------------------------------------------------------------
(* Expr and the evaluator's context *)

MaxParts == 2

\* parser::tokens
PAST == "past"

MEMORY == "memory"

METADATA == "metadata"

LitExpr(lit) == [node |-> "LitExpr", literal |-> lit]

IdentExpr(name, iv) ==
    [node |-> "IdentExpr", ident |-> [ident |-> name, interval |-> iv]]

BuilderExpr(elem, expr) == [node |-> "BuilderExpr", elem |-> elem, expr |-> expr]

ComplexLiteral(vec, iv) == [node |-> "ComplexLiteral", vec |-> vec, interval |-> iv]

Iv(l, c) == [line |-> l, column |-> c]

EvalLiterals ==
    {LiteralString("hi", Iv(1, 1)),
     LiteralInt(7, Iv(2, 3)),
     WithContentType(LiteralString("dbg", Iv(1, 9)), "debug"),
     LiteralObject([f |-> LiteralInt(1, Iv(3, 1))], Iv(3, 1))}

IdentNames == {"x", "obj", "nope", "f", MEMORY, PAST, METADATA}

\* expressions without children
AtomExprs ==
    {LitExpr(l) : l \in EvalLiterals}
    \cup {IdentExpr(n, Iv(1, 2)) : n \in IdentNames}

Exprs ==
    AtomExprs
    \cup {BuilderExpr(l, r) :
            l \in {IdentExpr(n, Iv(1, 2)) : n \in {"obj", "x", "nope", MEMORY, PAST, METADATA}}
                  \cup {LitExpr(LiteralInt(7, Iv(2, 3)))},
            r \in {IdentExpr(n, Iv(1, 6)) : n \in {"f", "x"}}}
    \cup {ComplexLiteral(v, Iv(4, 1)) :
            v \in UNION {[1..n -> {LitExpr(LiteralString("hi", Iv(1, 1))),
                                   LitExpr(LiteralInt(7, Iv(2, 3))),
                                   IdentExpr("x", Iv(1, 2)),
                                   IdentExpr("nope", Iv(1, 2))}] : n \in 0..MaxParts}}

\* Data: the variables in scope and the memory, metadata and past scopes
Contexts ==
    {[vars |-> [x |-> LiteralString("vx", Iv(5, 1)),
                obj |-> LiteralObject([f |-> LiteralInt(1, Iv(3, 1))], Iv(3, 1))],
      memory |-> [x |-> LiteralInt(3, Iv(6, 1))],
      metadata |-> [f |-> LiteralString("m", Iv(6, 2))],
      past |-> EmptyMap],
     [vars |-> [x |-> LiteralInt(7, Iv(2, 3))],
      memory |-> EmptyMap,
      metadata |-> EmptyMap,
      past |-> [f |-> LiteralString("p", Iv(6, 3))]],
     [vars |-> EmptyMap, memory |-> EmptyMap, metadata |-> EmptyMap, past |-> EmptyMap]}

\* Option<Event>
Events == {None, Some([payload |-> "hello"]), Some([payload |-> ""])}

\* search_str
search_str(name, expr) == expr.node = "IdentExpr" /\ expr.ident.ident = name

\* interval_from_expr
interval_from_expr(e) ==
    CASE e.node = "LitExpr" -> e.literal.interval
      [] e.node = "IdentExpr" -> e.ident.interval
      [] e.node = "BuilderExpr" ->
            IF e.elem.node = "LitExpr" THEN e.elem.literal.interval
            ELSE e.elem.ident.interval
      [] e.node = "ComplexLiteral" -> e.interval

\* get_var: the identifier's current Literal, or an error if unresolved
get_var(ident, d) ==
    IF ident.ident \in DOMAIN d.vars
    THEN [ret |-> Ok(d.vars[ident.ident]), data |-> d]
    ELSE [ret |-> Err([message |-> "unresolved identifier",
                       interval |-> ident.interval]),
          data |-> d]

\* get_memory_action: the lookup in the scope that elem names
get_memory_action(elem, expr, d) ==
    LET scope == CASE search_str(PAST, elem) -> d.past
                   [] search_str(MEMORY, elem) -> d.memory
                   [] search_str(METADATA, elem) -> d.metadata
    IN IF expr.node = "IdentExpr" /\ expr.ident.ident \in DOMAIN scope
       THEN [ret |-> Ok(scope[expr.ident.ident]), data |-> d]
       ELSE [ret |-> Err([message |-> "unresolved memory key",
                          interval |-> interval_from_expr(expr)]),
             data |-> d]

\* decompose_object: the field of literal that expr names
decompose_object(literal, expr, interval, d) ==
    IF /\ literal.primitive.type = "Object"
       /\ expr.node = "IdentExpr"
       /\ expr.ident.ident \in DOMAIN literal.primitive.value
    THEN [ret |-> Ok(literal.primitive.value[expr.ident.ident]), data |-> d]
    ELSE [ret |-> Err([message |-> "Error in Object builder",
                       interval |-> interval]),
          data |-> d]

\* gen_literal_form_expr with the LitExpr arm returning a null Literal
gen_literal_form_expr_null(expr, d) ==
    CASE expr.node = "LitExpr" ->
            [ret |-> Ok(LiteralNull(expr.literal.interval)), data |-> d]
      [] expr.node = "IdentExpr" -> get_var(expr.ident, d)
      [] OTHER ->
            [ret |-> Err([message |-> "Expression must be a literal or an identifier",
                          interval |-> interval_from_expr(expr)]),
             data |-> d]

\* gen_literal_form_expr
gen_literal_form_expr(expr, d) ==
    CASE expr.node = "LitExpr" -> [ret |-> Ok(expr.literal), data |-> d]
      [] expr.node = "IdentExpr" -> get_var(expr.ident, d)
      [] OTHER ->
            [ret |-> Err([message |-> "Expression must be a literal or an identifier",
                          interval |-> interval_from_expr(expr)]),
             data |-> d]

\* Primitive::to_string
LiteralToString(lit) ==
    CASE lit.primitive.type = "String" -> lit.primitive.value
      [] lit.primitive.type = "Int" -> ToString(lit.primitive.value)
      [] lit.primitive.type = "Null" -> "NULL"
      [] OTHER -> "[object]"

RECURSIVE ComplexString(_, _, _)
\* the concatenation, left to right, of the elements of vec from index i on
ComplexString(vec, i, d) ==
    IF i > Len(vec)
    THEN ""
    ELSE LET r == gen_literal_form_expr(vec[i], d).ret
             str == IF r.tag = "Ok"
                    THEN LiteralToString(r.val)
                    ELSE LiteralToString(LiteralNull(r.err.interval))
         IN str \o ComplexString(vec, i + 1, d)

\* get_string_from_complexstring: a Literal, never an error
get_string_from_complexstring(vec, iv, d) ==
    LiteralString(ComplexString(vec, 1, d), iv)

\* gen_literal_form_builder
gen_literal_form_builder(expr, d) ==
    CASE expr.node = "BuilderExpr" /\ search_str(PAST, expr.elem) ->
            get_memory_action(expr.elem, expr.expr, d)
      [] expr.node = "BuilderExpr" /\ search_str(MEMORY, expr.elem) ->
            get_memory_action(expr.elem, expr.expr, d)
      [] expr.node = "BuilderExpr" /\ search_str(METADATA, expr.elem) ->
            get_memory_action(expr.elem, expr.expr, d)
      [] expr.node = "BuilderExpr" ->
            IF expr.elem.node = "IdentExpr"
            THEN LET v == get_var(expr.elem.ident, d)
                 IN IF v.ret.tag = "Err"
                    THEN v
                    ELSE decompose_object(v.ret.val, expr.expr,
                                          expr.elem.ident.interval, v.data)
            ELSE [ret |-> Err([message |-> "Error in Object builder",
                               interval |-> interval_from_expr(expr.elem)]),
                  data |-> d]
      [] expr.node = "ComplexLiteral" ->
            [ret |-> Ok(get_string_from_complexstring(expr.vec, expr.interval, d)),
             data |-> d]
      [] expr.node = "IdentExpr" -> get_var(expr.ident, d)
      [] OTHER ->
            [ret |-> Err([message |-> "Error in Expression builder",
                          interval |-> interval_from_expr(expr)]),
             data |-> d]

\* gen_literal_form_event with the arms exchanged
gen_literal_form_event_swapped(event, interval) ==
    IF event.tag = "Some"
    THEN Ok(LiteralNull(interval))
    ELSE Ok(LiteralString("", interval))

\* gen_literal_form_event
gen_literal_form_event(event, interval) ==
    IF event.tag = "Some"
    THEN Ok(LiteralString(event.val.payload, interval))
    ELSE Ok(LiteralNull(interval))

----------------------------------------------------------------------------
(* The ArgsType specification: an ArgsType and a target map are built, and *)
(* one of the methods is called on them.                                   *)

NoCall == [op |-> "none"]

NoArgs == [kind |-> "Normal", var |-> EmptyMap]

Get ==
    /\ call = NoCall
    /\ \E key \in LookupKeys, index \in 0..MaxIndex :
        /\ call' = [op |-> "get", key |-> key, index |-> index]
        /\ ret' = ArgsGet(args, key, index)
        /\ UNCHANGED <<args, map, evalVars, mainVars, srvVars, dbVars>>

Populate ==
    /\ call = NoCall
    /\ \E vec \in NameVecs, interval \in Intervals :
        LET r == ArgsPopulate(args, map, vec, interval)
        IN /\ call' = [op |-> "populate", map |-> map, vec |-> vec,
                       interval |-> interval]
           /\ ret' = r.ret
           /\ map' = r.map
           /\ UNCHANGED <<args, evalVars, mainVars, srvVars, dbVars>>

PopulateJsonToLiteral ==
    /\ call = NoCall
    /\ \E vec \in JsonVecs, interval \in Intervals :
        LET r == ArgsPopulateJson(args, map, vec, interval)
        IN /\ call' = [op |-> "populate_json_to_literal", map |-> map,
                       json |-> vec, interval |-> interval]
           /\ ret' = r.ret
           /\ map' = r.map
           /\ UNCHANGED <<args, evalVars, mainVars, srvVars, dbVars>>

NextArgs == Get \/ Populate \/ PopulateJsonToLiteral

----------------------------------------------------------------------------
(* The evaluator specification: a context is built and one of the          *)
(* gen_literal functions is called.                                        *)

NoData ==
    [vars |-> EmptyMap, memory |-> EmptyMap, metadata |-> EmptyMap,
     past |-> EmptyMap]

GenLiteralFormExpr ==
    /\ evcall = NoCall
    /\ \E expr \in Exprs :
        LET r == gen_literal_form_expr(expr, data)
        IN /\ evcall' = [op |-> "gen_literal_form_expr", expr |-> expr,
                         data |-> data]
           /\ evret' = r.ret
           /\ data' = r.data
           /\ UNCHANGED <<argsVars, mainVars, srvVars, dbVars>>

GenLiteralFormBuilder ==
    /\ evcall = NoCall
    /\ \E expr \in Exprs :
        LET r == gen_literal_form_builder(expr, data)
        IN /\ evcall' = [op |-> "gen_literal_form_builder", expr |-> expr,
                         data |-> data]
           /\ evret' = r.ret
           /\ data' = r.data
           /\ UNCHANGED <<argsVars, mainVars, srvVars, dbVars>>

GenLiteralFormEvent ==
    /\ evcall = NoCall
    /\ \E event \in Events, interval \in Intervals :
        /\ evcall' = [op |-> "gen_literal_form_event", event |-> event,
                      interval |-> interval]
        /\ evret' = gen_literal_form_event(event, interval)
        /\ UNCHANGED <<data, argsVars, mainVars, srvVars, dbVars>>

NextEval == GenLiteralFormExpr \/ GenLiteralFormBuilder \/ GenLiteralFormEvent

----------------------------------------------------------------------------
(* examples/memory.rs: build a bot, validate it, interpret it *)

MaxIssues == 3

DEFAULT_ID_NAME == "id"

DEFAULT_FLOW_NAME == "default"

DEFAULT_STEP_NAME == "start"

DEFAULT_BOT_NAME == "my_bot"

\* the content of CSML/examples/memory.csml, by what the validator finds in
\* it: the number of dangling gotos and the number of advisory issues
FlowSources == [dangling : 0..MaxIssues, advisory : 0..MaxIssues]

\* what load_components() can return
NativeComponents == {"components_v1", "components_v2"}

\* CsmlFlow::new
CsmlFlowNew(id, name, content) == [id |-> id, name |-> name, content |-> content]

\* CsmlBot::new
CsmlBotNew(id, name, fn_endpoint, flows, native_components, custom_components, default_flow) ==
    [id |-> id, name |-> name, fn_endpoint |-> fn_endpoint, flows |-> flows,
     native_components |-> native_components,
     custom_components |-> custom_components, default_flow |-> default_flow]

NoBot == [id |-> "none"]

NoResult == [errors |-> None, warnings |-> None]

\* validate_bot: errors and warnings are None when there are none of them
validate_bot(b) ==
    LET src == b.flows[1].content
    IN [errors |-> IF src.dangling = 0 THEN None
                   ELSE Some([i \in 1..src.dangling |-> "dangling goto"]),
        warnings |-> IF src.advisory = 0 THEN None
                     ELSE Some([i \in 1..src.advisory |-> "warning"])]

\* lines 18-44: read the flow, load the native components, build the bot
MainBuild ==
    /\ mpc = "start"
    /\ \E content \in FlowSources, native_component \in NativeComponents :
        /\ bot' = CsmlBotNew(DEFAULT_ID_NAME, DEFAULT_BOT_NAME, None,
                     <<CsmlFlowNew(DEFAULT_ID_NAME, "default", content)>>,
                     Some(native_component), None, DEFAULT_FLOW_NAME)
        /\ mpc' = "built"
    /\ UNCHANGED <<result, validated, interpreted, dbg, argsVars, evalVars, srvVars, dbVars>>

\* lines 18 and 20: an unwrap of a failed read or load panics
MainBuildPanics ==
    /\ mpc = "start"
    /\ mpc' = "panicked"
    /\ UNCHANGED <<bot, result, validated, interpreted, dbg, argsVars, evalVars, srvVars, dbVars>>

\* line 47: let result = validate_bot(bot.to_owned())
MainValidate ==
    /\ mpc = "built"
    /\ result' = validate_bot(bot)
    /\ validated' = Append(validated, bot)
    /\ mpc' = "validated"
    /\ UNCHANGED <<bot, interpreted, dbg, argsVars, evalVars, srvVars, dbVars>>

\* lines 49-52 without the return
MainReportErrorsNoReturn ==
    /\ mpc = "validated"
    /\ result.errors.tag = "Some"
    /\ dbg' = Append(dbg, [what |-> "errors", val |-> result.errors])
    /\ mpc' = "checked"
    /\ UNCHANGED <<bot, result, validated, interpreted, argsVars, evalVars, srvVars, dbVars>>

\* lines 49-52: if result.errors.is_some() { dbg!(result.errors); return; }
MainReportErrors ==
    /\ mpc = "validated"
    /\ result.errors.tag = "Some"
    /\ dbg' = Append(dbg, [what |-> "errors", val |-> result.errors])
    /\ mpc' = "done"
    /\ UNCHANGED <<bot, result, validated, interpreted, argsVars, evalVars, srvVars, dbVars>>

\* lines 49 and 53-55: no errors; if result.warnings.is_some() { dbg!(..) }
MainReportWarnings ==
    /\ mpc = "validated"
    /\ result.errors.tag = "None"
    /\ dbg' = IF result.warnings.tag = "Some"
              THEN Append(dbg, [what |-> "warnings", val |-> result.warnings])
              ELSE dbg
    /\ mpc' = "checked"
    /\ UNCHANGED <<bot, result, validated, interpreted, argsVars, evalVars, srvVars, dbVars>>

\* line 57: dbg!(interpret(bot, context, event, None))
MainInterpret ==
    /\ mpc = "checked"
    /\ interpreted' = Append(interpreted, bot)
    /\ dbg' = Append(dbg, [what |-> "interpret", val |-> Some(<<"messages">>)])
    /\ mpc' = "done"
    /\ UNCHANGED <<bot, result, validated, argsVars, evalVars, srvVars, dbVars>>

NextMain ==
    \/ MainBuild
    \/ MainBuildPanics
    \/ MainValidate
    \/ MainReportErrors
    \/ MainReportWarnings
    \/ MainInterpret
----------------------------------------------------------------------------
(* csml_server/src/routes/bot_versions.rs *)

BotIds == {"bot1", "bot2"}

VersionIds == {"v1", "v2"}

Limits == {None, Some(1)}

\* the bots a request can carry or the engine can hold
Bots ==
    {CsmlBotNew(id, "my_bot", None,
                <<CsmlFlowNew("id", "default", [dangling |-> 0, advisory |-> 0])>>,
                nc, None, "default") :
        id \in BotIds, nc \in {None, Some("components_v1")}}

BotVersions == [bot : Bots, version_id : VersionIds]

EngineErrors == {"Manager(db unreachable)", "Interpreter(invalid bot)"}

\* a thread that panicked: what join() gives is Err(payload)
Panicked == [tag |-> "Panicked"]

\* the engine function each handler's thread calls
EngineCall(op) ==
    CASE op = "add_bot_version" -> "create_bot_version"
      [] op = "get_bot_latest_version" -> "get_last_bot_version"
      [] op = "get_bot_latest_versions" -> "get_bot_versions"
      [] op = "get_bot_version" -> "get_bot_by_version_id"

\* BotVersion::flatten
flatten(bv) ==
    [version_id |-> bv.version_id,
     id |-> bv.bot.id,
     name |-> bv.bot.name,
     fn_endpoint |-> bv.bot.fn_endpoint,
     flows |-> bv.bot.flows,
     custom_components |-> bv.bot.custom_components,
     default_flow |-> bv.bot.default_flow]

\* HttpResponse::<Status>().json(body)
HttpJson(status, body) == [status |-> status, body |-> Some(body)]

\* HttpResponse::<Status>().finish()
HttpFinish(status) == [status |-> status, body |-> None]

\* what create_bot_version(bot) can end with
CreateOutcomes ==
    {Ok(v) : v \in VersionIds} \cup {Err(e) : e \in EngineErrors} \cup {Panicked}

\* what get_last_bot_version(bot_id) and get_bot_by_version_id can end with
GetBotOutcomes(bot_id) ==
    {Ok(Some(bv)) : bv \in {x \in BotVersions : x.bot.id = bot_id}}
    \cup {Ok(None)} \cup {Err(e) : e \in EngineErrors} \cup {Panicked}

\* what get_bot_versions(bot_id, limit, last_key) can end with
GetVersionsOutcomes(bot_id) ==
    {Ok([bots |-> l]) : l \in {<<>>, <<[version_id |-> "v1", id |-> bot_id]>>}}
    \cup {Err(e) : e \in EngineErrors} \cup {Panicked}

\* lines 27-33: the match of add_bot_version
add_bot_version_match(res) ==
    IF res.tag = "Ok"
    THEN [resp |-> HttpJson(201, [version_id |-> res.val]), log |-> <<>>]
    ELSE [resp |-> HttpFinish(500), log |-> <<res.err>>]

\* lines 71-78: the match of get_bot_latest_version
get_bot_latest_version_match(res) ==
    IF res.tag = "Ok"
    THEN IF res.val.tag = "Some"
         THEN [resp |-> HttpJson(200, flatten(res.val.val)), log |-> <<>>]
         ELSE [resp |-> HttpFinish(404), log |-> <<>>]
    ELSE [resp |-> HttpFinish(500), log |-> <<res.err>>]

\* lines 107-113: the match of get_bot_latest_versions
get_bot_latest_versions_match(res) ==
    IF res.tag = "Ok"
    THEN [resp |-> HttpJson(200, res.val), log |-> <<>>]
    ELSE [resp |-> HttpFinish(500), log |-> <<res.err>>]

\* the match of get_bot_version answering with the error in the body
get_bot_version_match_leaks(res) ==
    IF res.tag = "Ok"
    THEN IF res.val.tag = "Some"
         THEN [resp |-> HttpJson(200, flatten(res.val.val)), log |-> <<>>]
         ELSE [resp |-> HttpFinish(404), log |-> <<>>]
    ELSE [resp |-> HttpJson(500, [error |-> res.err]), log |-> <<res.err>>]

\* lines 147-154: the match of get_bot_version
get_bot_version_match(res) ==
    IF res.tag = "Ok"
    THEN IF res.val.tag = "Some"
         THEN [resp |-> HttpJson(200, flatten(res.val.val)), log |-> <<>>]
         ELSE [resp |-> HttpFinish(404), log |-> <<>>]
    ELSE [resp |-> HttpFinish(500), log |-> <<res.err>>]

\* lines 19-25: add_bot_version takes the body and spawns its thread
AddBotVersion ==
    /\ hpc = "idle"
    /\ \E b \in Bots :
        req' = [op |-> "add_bot_version", bot |-> b]
    /\ hpc' = "spawned"
    /\ UNCHANGED <<worker, resp, elog, argsVars, evalVars, mainVars, dbVars>>

\* lines 63-69: get_bot_latest_version
GetBotLatestVersion ==
    /\ hpc = "idle"
    /\ \E id \in BotIds :
        req' = [op |-> "get_bot_latest_version", bot_id |-> id]
    /\ hpc' = "spawned"
    /\ UNCHANGED <<worker, resp, elog, argsVars, evalVars, mainVars, dbVars>>

\* lines 97-105: get_bot_latest_versions
GetBotLatestVersions ==
    /\ hpc = "idle"
    /\ \E id \in BotIds, limit \in Limits, last_key \in {None, Some("k")} :
        req' = [op |-> "get_bot_latest_versions", bot_id |-> id,
                limit |-> limit, last_key |-> last_key]
    /\ hpc' = "spawned"
    /\ UNCHANGED <<worker, resp, elog, argsVars, evalVars, mainVars, dbVars>>

\* lines 137-145: get_bot_version
GetBotVersion ==
    /\ hpc = "idle"
    /\ \E id \in BotIds, v \in VersionIds :
        req' = [op |-> "get_bot_version", bot_id |-> id, version_id |-> v]
    /\ hpc' = "spawned"
    /\ UNCHANGED <<worker, resp, elog, argsVars, evalVars, mainVars, dbVars>>

\* the spawned thread runs the engine call to its end: a value or a panic
WorkerRuns ==
    /\ hpc = "spawned"
    /\ \E res \in
         CASE req.op = "add_bot_version" -> CreateOutcomes
           [] req.op = "get_bot_latest_version" -> GetBotOutcomes(req.bot_id)
           [] req.op = "get_bot_latest_versions" -> GetVersionsOutcomes(req.bot_id)
           [] req.op = "get_bot_version" ->
                {o \in GetBotOutcomes(req.bot_id) :
                    (o.tag = "Ok" /\ o.val.tag = "Some")
                        => o.val.val.version_id = req.version_id} :
         worker' = [fn |-> EngineCall(req.op), res |-> res]
    /\ hpc' = "finished"
    /\ UNCHANGED <<req, resp, elog, argsVars, evalVars, mainVars, dbVars>>

\* .join().unwrap() on a thread that returned, and the match on its value
JoinAndRespond ==
    /\ hpc = "finished"
    /\ worker.res # Panicked
    /\ LET r == CASE req.op = "add_bot_version" -> add_bot_version_match(worker.res)
                  [] req.op = "get_bot_latest_version" ->
                        get_bot_latest_version_match(worker.res)
                  [] req.op = "get_bot_latest_versions" ->
                        get_bot_latest_versions_match(worker.res)
                  [] req.op = "get_bot_version" ->
                        get_bot_version_match(worker.res)
       IN /\ resp' = Some(r.resp)
          /\ elog' = elog \o r.log
    /\ hpc' = "responded"
    /\ UNCHANGED <<req, worker, argsVars, evalVars, mainVars, dbVars>>

\* .join().unwrap() on a thread that panicked: join() gives Err and the
\* unwrap panics in the handler, which returns no HttpResponse
JoinUnwrapPanics ==
    /\ hpc = "finished"
    /\ worker.res = Panicked
    /\ hpc' = "panicked"
    /\ UNCHANGED <<req, worker, resp, elog, argsVars, evalVars, mainVars, dbVars>>

NextServer ==
    \/ AddBotVersion
    \/ GetBotLatestVersion
    \/ GetBotLatestVersions
    \/ GetBotVersion
    \/ WorkerRuns
    \/ JoinAndRespond
    \/ JoinUnwrapPanics

----------------------------------------------------------------------------
(* csml_engine/src/db_connectors/mod.rs: the choice of the backend *)

\* error_messages::ERROR_DB_SETUP
ERROR_DB_SETUP == "ERROR_DB_SETUP"

\* the environment's ENGINE_DB_TYPE: not set, set to a string, or set to
\* bytes that are not unicode
EnvUnset == [tag |-> "Unset"]

EnvSet(val) == [tag |-> "Set", val |-> val]

EnvNotUnicode == [tag |-> "NotUnicode"]

EnvValues ==
    {EnvUnset, EnvNotUnicode}
    \cup {EnvSet(v) : v \in {"mongodb", "dynamodb", "MongoDB", "postgresql", "dynamo", "mongodb ",
                            "DYNAMODB", ""}}

\* the builds: #[cfg(feature = "mongo")], #[cfg(feature = "dynamo")], with
\* at least one backend compiled in
Builds == {f \in [mongo : BOOLEAN, dynamo : BOOLEAN] : f.mongo \/ f.dynamo}

\* std::env::var: Ok(val) for a unicode value, Err(VarError) otherwise
env_var(e) ==
    CASE e.tag = "Set" -> Ok(e.val)
      [] e.tag = "Unset" -> Err("NotPresent")
      [] e.tag = "NotUnicode" -> Err("NotUnicode")

\* is_mongodb
is_mongodb(e) ==
    IF env_var(e).tag = "Ok" THEN env_var(e).val = "mongodb" ELSE TRUE

\* is_dynamodb
is_dynamodb(e) ==
    IF env_var(e).tag = "Ok" THEN env_var(e).val = "dynamodb" ELSE FALSE

\* what mongodb_connector::init() and dynamodb_connector::init() can return
ConnectorInit(backend) ==
    {Ok([database |-> backend]), Err("Manager(connection failed)")}

\* init_db falling back to mongodb for every value it does not know
init_db_backend_fallback(f, e) ==
    IF f.mongo /\ is_mongodb(e) THEN "mongodb"
    ELSE IF f.dynamo /\ is_dynamodb(e) THEN "dynamodb"
    ELSE IF f.mongo THEN "mongodb"
    ELSE "none"

\* init_db: the connector whose init() it returns, if any
init_db_backend(f, e) ==
    IF f.mongo /\ is_mongodb(e) THEN "mongodb"
    ELSE IF f.dynamo /\ is_dynamodb(e) THEN "dynamodb"
    ELSE "none"

IsMongodb ==
    /\ dbcall = NoCall
    /\ features.mongo
    /\ dbcall' = [op |-> "is_mongodb"]
    /\ dbret' = Some([value |-> is_mongodb(env)])
    /\ UNCHANGED <<features, env, argsVars, evalVars, mainVars, srvVars>>

IsDynamodb ==
    /\ dbcall = NoCall
    /\ features.dynamo
    /\ dbcall' = [op |-> "is_dynamodb"]
    /\ dbret' = Some([value |-> is_dynamodb(env)])
    /\ UNCHANGED <<features, env, argsVars, evalVars, mainVars, srvVars>>

\* init_db: what it can return, with the backend whose init() was called
init_db(f, e) ==
    IF init_db_backend(f, e) = "none"
    THEN {[backend |-> "none",
           result |-> Err([kind |-> "Manager", msg |-> ERROR_DB_SETUP])]}
    ELSE {[backend |-> init_db_backend(f, e), result |-> r] :
             r \in ConnectorInit(init_db_backend(f, e))}

InitDb ==
    /\ dbcall = NoCall
    /\ dbcall' = [op |-> "init_db"]
    /\ \E r \in init_db(features, env) : dbret' = Some(r)
    /\ UNCHANGED <<features, env, argsVars, evalVars, mainVars, srvVars>>

NextDb == IsMongodb \/ IsDynamodb \/ InitDb

----------------------------------------------------------------------------
(* The specifications *)

InitArgs ==
    /\ args \in NamedArgs \cup NormalArgs
    /\ map \in MapsUpTo(TargetKeys, ArgLiterals, MaxTarget)
    /\ call = NoCall
    /\ ret = None
    /\ data = NoData
    /\ evcall = NoCall
    /\ evret = None
    /\ mpc = "idle"
    /\ bot = NoBot
    /\ result = NoResult
    /\ validated = <<>>
    /\ interpreted = <<>>
    /\ dbg = <<>>
    /\ hpc = "off"
    /\ req = NoCall
    /\ worker = None
    /\ resp = None
    /\ elog = <<>>
    /\ features = [mongo |-> TRUE, dynamo |-> FALSE]
    /\ env = EnvUnset
    /\ dbcall = NoCall
    /\ dbret = None

InitEval ==
    /\ args = NoArgs
    /\ map = EmptyMap
    /\ call = NoCall
    /\ ret = None
    /\ data \in Contexts
    /\ evcall = NoCall
    /\ evret = None
    /\ mpc = "idle"
    /\ bot = NoBot
    /\ result = NoResult
    /\ validated = <<>>
    /\ interpreted = <<>>
    /\ dbg = <<>>
    /\ hpc = "off"
    /\ req = NoCall
    /\ worker = None
    /\ resp = None
    /\ elog = <<>>
    /\ features = [mongo |-> TRUE, dynamo |-> FALSE]
    /\ env = EnvUnset
    /\ dbcall = NoCall
    /\ dbret = None

InitMain ==
    /\ args = NoArgs
    /\ map = EmptyMap
    /\ call = NoCall
    /\ ret = None
    /\ data = NoData
    /\ evcall = NoCall
    /\ evret = None
    /\ mpc = "start"
    /\ bot = NoBot
    /\ result = NoResult
    /\ validated = <<>>
    /\ interpreted = <<>>
    /\ dbg = <<>>
    /\ hpc = "off"
    /\ req = NoCall
    /\ worker = None
    /\ resp = None
    /\ elog = <<>>
    /\ features = [mongo |-> TRUE, dynamo |-> FALSE]
    /\ env = EnvUnset
    /\ dbcall = NoCall
    /\ dbret = None

InitServer ==
    /\ args = NoArgs
    /\ map = EmptyMap
    /\ call = NoCall
    /\ ret = None
    /\ data = NoData
    /\ evcall = NoCall
    /\ evret = None
    /\ mpc = "idle"
    /\ bot = NoBot
    /\ result = NoResult
    /\ validated = <<>>
    /\ interpreted = <<>>
    /\ dbg = <<>>
    /\ hpc = "idle"
    /\ req = NoCall
    /\ worker = None
    /\ resp = None
    /\ elog = <<>>
    /\ features = [mongo |-> TRUE, dynamo |-> FALSE]
    /\ env = EnvUnset
    /\ dbcall = NoCall
    /\ dbret = None

InitDbSpec ==
    /\ args = NoArgs
    /\ map = EmptyMap
    /\ call = NoCall
    /\ ret = None
    /\ data = NoData
    /\ evcall = NoCall
    /\ evret = None
    /\ mpc = "idle"
    /\ bot = NoBot
    /\ result = NoResult
    /\ validated = <<>>
    /\ interpreted = <<>>
    /\ dbg = <<>>
    /\ hpc = "off"
    /\ req = NoCall
    /\ worker = None
    /\ resp = None
    /\ elog = <<>>
    /\ features \in Builds
    /\ env \in EnvValues
    /\ dbcall = NoCall
    /\ dbret = None

SpecArgs == InitArgs /\ [][NextArgs]_vars

SpecEval == InitEval /\ [][NextEval]_vars

SpecMain == InitMain /\ [][NextMain]_vars

SpecServer == InitServer /\ [][NextServer]_vars

SpecDb == InitDbSpec /\ [][NextDb]_vars

----------------------------------------------------------------------------
(* Properties of ArgsType *)

\* the names of a vec, as a set
NamesOf(vec) == {vec[i] : i \in 1..Len(vec)}

\* the keys appearing in the JSON objects of a vec
JsonKeys(vec) ==
    UNION {DOMAIN vec[i].fields : i \in {j \in 1..Len(vec) : vec[j].type = "Object"}}

RECURSIVE SeqOfSet(_)
\* a sequence listing each element of a finite set once
SeqOfSet(S) ==
    IF S = {} THEN <<>>
    ELSE LET x == CHOOSE y \in S : TRUE IN <<x>> \o SeqOfSet(S \ {x})

\* m overridden by the entries of var under the keys ks
Overridden(m, var, ks) ==
    [k \in DOMAIN m \cup ks |-> IF k \in ks THEN var[k] ELSE m[k]]

TooManyArguments(interval) ==
    Err([message |-> "to many arguments", interval |-> interval])

\* C1: on a Named ArgsType, get(k, i) returns the value under k when k is
\* present; when k is absent and i = 0 the value under "arg0" if present;
\* in every other case none, even if a key "arg{i}" exists.
C1_NamedGet ==
    (call.op = "get" /\ args.kind = "Named") =>
        ret = IF call.key \in DOMAIN args.var
              THEN Some(args.var[call.key])
              ELSE IF call.index = 0 /\ "arg0" \in DOMAIN args.var
                   THEN Some(args.var["arg0"])
                   ELSE None

C1_Witness ==
    /\ call.op = "get" /\ args.kind = "Named"
    /\ call.key \notin DOMAIN args.var
    /\ call.index = 1
    /\ "arg1" \in DOMAIN args.var
    /\ ret = None

\* C2: on a Normal ArgsType with n arguments, populate with m declared names
\* returns the "too many arguments" error carrying the supplied interval
\* exactly when m < n and success exactly when m >= n; the target map and the
\* ArgsType are unchanged either way.
C2_NormalPopulate ==
    [][(call'.op = "populate" /\ args.kind = "Normal") =>
         /\ map' = map
         /\ args' = args
         /\ (Len(call'.vec) < Cardinality(DOMAIN args.var)
                => ret' = TooManyArguments(call'.interval))
         /\ (Len(call'.vec) >= Cardinality(DOMAIN args.var)
                => ret' = Ok(Unit))]_vars

C2_Witness ==
    /\ call.op = "populate" /\ args.kind = "Normal"
    /\ Len(call.vec) = 1
    /\ Cardinality(DOMAIN args.var) = 2
    /\ ret.tag = "Err"
    /\ map # EmptyMap

\* C3: on a Named ArgsType A, populate always succeeds and the target map
\* becomes the old one overridden by exactly the entries of A whose key is
\* neither excluded nor "arg0"; A is unchanged.
C3_NamedPopulate ==
    [][(call'.op = "populate" /\ args.kind = "Named") =>
         /\ ret' = Ok(Unit)
         /\ args' = args
         /\ map' = Overridden(map, args.var,
                     {k \in DOMAIN args.var :
                         k \notin NamesOf(call'.vec) /\ k # "arg0"})]_vars

C3_Witness ==
    /\ call.op = "populate" /\ args.kind = "Named"
    /\ DOMAIN args.var = {"a", "arg0", "arg1"}
    /\ NamesOf(call.vec) = {"a", "b"}
    /\ DOMAIN map = {"arg0", "arg1"}
    /\ map["arg0"] # args.var["arg0"]
    /\ map["arg1"] = args.var["arg1"]

\* C10 as claimed: populate_json_to_literal(T, J) gives the result and the
\* final T of populate(T, E) with E the keys appearing in the JSON objects of
\* J, for Named and for Normal.
C10_SameAsPopulate ==
    call.op = "populate_json_to_literal" =>
        LET r == ArgsPopulate(args, call.map, SeqOfSet(JsonKeys(call.json)),
                              call.interval)
        IN ret = r.ret /\ map = r.map

\* C10 amended: for Named, populate_json_to_literal(T, J) gives the result
\* and the final T of populate(T, E) with E the keys appearing in the JSON
\* objects of J; for Normal it fails with "too many arguments" exactly when
\* J has fewer elements (objects or not, whatever keys they hold) than there
\* are arguments, and copies nothing.
C10_JsonPopulate ==
    [][call'.op = "populate_json_to_literal" =>
         IF args.kind = "Named"
         THEN LET r == ArgsPopulate(args, map, SeqOfSet(JsonKeys(call'.json)),
                                    call'.interval)
              IN ret' = r.ret /\ map' = r.map /\ args' = args
         ELSE /\ map' = map
              /\ args' = args
              /\ ret' = IF Len(call'.json) < Cardinality(DOMAIN args.var)
                        THEN TooManyArguments(call'.interval)
                        ELSE Ok(Unit)]_vars

C10_Witness ==
    /\ call.op = "populate_json_to_literal" /\ args.kind = "Named"
    /\ DOMAIN args.var = {"a", "arg0", "arg1"}
    /\ Len(call.json) = 2
    /\ call.json[1].type = "String"
    /\ call.json[2] = JsonObject({"a", "b"})
    /\ DOMAIN map = {"arg1"}

----------------------------------------------------------------------------
(* Properties of the evaluator *)

\* C4: gen_literal_form_event never returns an error: an absent event gives
\* a null Literal at the given interval, a present event with payload p a
\* string Literal of value p at the given interval.
C4_EventLiteral ==
    evcall.op = "gen_literal_form_event" =>
        /\ evret.tag = "Ok"
        /\ evret.val.interval = evcall.interval
        /\ (evcall.event.tag = "None" => evret.val.primitive.type = "Null")
        /\ (evcall.event.tag = "Some" =>
                evret.val.primitive =
                    [type |-> "String", value |-> evcall.event.val.payload])

C4_Witness ==
    /\ evcall.op = "gen_literal_form_event"
    /\ evcall.event = Some([payload |-> "hello"])
    /\ evcall.interval = Iv(2, 5)
    /\ evret = Ok([content_type |-> None, interval |-> Iv(2, 5),
                   primitive |-> [type |-> "String", value |-> "hello"]])

\* C5 as claimed: with either entry point, gen_literal_form_expr or
\* gen_literal_form_builder, evaluating LitExpr(L) returns Ok with a Literal
\* equal to L and leaves the context unchanged.
C5_LitExprBothEntryPoints ==
    (evcall.op \in {"gen_literal_form_expr", "gen_literal_form_builder"}
     /\ evcall.expr.node = "LitExpr") =>
        /\ evret = Ok(evcall.expr.literal)
        /\ data = evcall.data

\* C5 amended: gen_literal_form_expr evaluates LitExpr(L) to Ok with a
\* Literal equal to L (same primitive, content_type and interval) and leaves
\* the context unchanged; gen_literal_form_builder has no LitExpr arm and
\* returns the error "Error in Expression builder", leaving the context
\* unchanged.
C5_LitExpr ==
    [][(evcall'.op \in {"gen_literal_form_expr", "gen_literal_form_builder"}
        /\ evcall'.expr.node = "LitExpr") =>
         /\ data' = data
         /\ (evcall'.op = "gen_literal_form_expr" =>
                evret' = Ok(evcall'.expr.literal))
         /\ (evcall'.op = "gen_literal_form_builder" =>
                /\ evret'.tag = "Err"
                /\ evret'.err.message = "Error in Expression builder")]_vars

C5_Witness ==
    /\ evcall.op = "gen_literal_form_expr"
    /\ evcall.expr.node = "LitExpr"
    /\ evcall.expr.literal.content_type = Some("debug")
    /\ evret = Ok(evcall.expr.literal)
    /\ data.vars # EmptyMap

\* the Err that the claim requires: a message and the given Interval
IsErrAt(r, interval) ==
    /\ r.tag = "Err"
    /\ r.err.message # ""
    /\ r.err.interval = interval

\* the positions of the sub-expressions of vec whose evaluation fails
FailingParts(vec, d) ==
    {i \in 1..Len(vec) : gen_literal_form_expr(vec[i], d).ret.tag = "Err"}

\* C11: the evaluator performs no silent recovery. Whenever evaluating the
\* given Expr or one of its sub-expressions fails, gen_literal_form_expr /
\* gen_literal_form_builder returns an Err carrying a message and the
\* offending node's Interval, never an Ok Literal built from a substituted
\* value. The failures are: an unresolved identifier, a BuilderExpr whose
\* left side is not a simple identifier, a node shape the entry point does
\* not accept, and a failing sub-expression inside a ComplexLiteral.
C11_NoSilentRecovery ==
    evcall.op \in {"gen_literal_form_expr", "gen_literal_form_builder"} =>
        LET e == evcall.expr
            d == evcall.data
            builder == evcall.op = "gen_literal_form_builder"
        IN \* an unresolved identifier
           /\ (e.node = "IdentExpr" /\ e.ident.ident \notin DOMAIN d.vars) =>
                IsErrAt(evret, e.ident.interval)
           \* an unresolved identifier on the left of a BuilderExpr
           /\ (/\ builder
               /\ e.node = "BuilderExpr"
               /\ e.elem.node = "IdentExpr"
               /\ e.elem.ident.ident \notin {PAST, MEMORY, METADATA}
               /\ e.elem.ident.ident \notin DOMAIN d.vars) =>
                IsErrAt(evret, e.elem.ident.interval)
           \* a BuilderExpr whose left side is not a simple identifier
           /\ (builder /\ e.node = "BuilderExpr" /\ e.elem.node # "IdentExpr") =>
                IsErrAt(evret, interval_from_expr(e.elem))
           \* a node shape the entry point does not accept
           /\ (~builder /\ e.node \notin {"LitExpr", "IdentExpr"}) =>
                IsErrAt(evret, interval_from_expr(e))
           /\ (builder /\ e.node = "LitExpr") =>
                IsErrAt(evret, interval_from_expr(e))
           \* a failing sub-expression inside a ComplexLiteral
           /\ (builder /\ e.node = "ComplexLiteral"
                       /\ FailingParts(e.vec, d) # {}) =>
                \E i \in FailingParts(e.vec, d) :
                    IsErrAt(evret, interval_from_expr(e.vec[i]))

----------------------------------------------------------------------------
(* Properties of the validate-then-interpret sequence *)

\* C6: interpret is never invoked for a bot whose validation result holds
\* errors, and execution stops after reporting them; a result holding only
\* warnings does not block: interpret is invoked exactly once, after
\* validation, on the same unmodified bot definition.
C6_ValidateThenInterpret ==
    /\ Len(interpreted) <= 1
    /\ interpreted # <<>> =>
          /\ validated = interpreted
          /\ result = validate_bot(interpreted[1])
          /\ result.errors = None
          /\ interpreted[1] = bot
    /\ (mpc = "done" /\ result.errors # None) =>
          /\ interpreted = <<>>
          /\ dbg = <<[what |-> "errors", val |-> result.errors]>>
    /\ (mpc = "done" /\ result.errors = None) => Len(interpreted) = 1

C6_Witness ==
    /\ mpc = "done"
    /\ result.errors = None
    /\ result.warnings # None
    /\ Len(interpreted) = 1
    /\ interpreted[1].flows[1].content.advisory = 2

----------------------------------------------------------------------------
(* Properties of the bot-version routes *)

\* C7: if the worker thread panics instead of returning, the handler still
\* answers with an internal-error (500) response, and the panic never
\* propagates as a panic of the handler.
C7_WorkerCrashIs500 ==
    (hpc \notin {"idle", "spawned", "finished"} /\ worker.res = Panicked) =>
        /\ hpc = "responded"
        /\ resp.tag = "Some"
        /\ resp.val.status = 500

\* the answer the routes document for a worker's result
DocumentedResponse(op, res) ==
    CASE res.tag = "Err" -> [status |-> 500, body |-> None]
      [] op = "add_bot_version" ->
            [status |-> 201, body |-> Some([version_id |-> res.val])]
      [] op = "get_bot_latest_versions" ->
            [status |-> 200, body |-> Some(res.val)]
      [] op \in {"get_bot_latest_version", "get_bot_version"} ->
            IF res.val = None
            THEN [status |-> 404, body |-> None]
            ELSE [status |-> 200,
                  body |-> Some(
                     [version_id |-> res.val.val.version_id,
                      id |-> res.val.val.bot.id,
                      name |-> res.val.val.bot.name,
                      fn_endpoint |-> res.val.val.bot.fn_endpoint,
                      flows |-> res.val.val.bot.flows,
                      custom_components |-> res.val.val.bot.custom_components,
                      default_flow |-> res.val.val.bot.default_flow])]

----------------------------------------------------------------------------
(* Properties of the backend choice *)

\* the backend the documentation of the module gives for a switch value
DocumentedBackend(e) ==
    CASE e = EnvUnset -> "mongodb"
      [] e = EnvSet("mongodb") -> "mongodb"
      [] e = EnvSet("dynamodb") -> "dynamodb"
      [] OTHER -> "none"

SetupError == Err([kind |-> "Manager", msg |-> ERROR_DB_SETUP])

====
